---- MODULE Spec2Model ----
(***************************************************************************)
(* Model of the request pipeline of src/api/proxy.js: one run of           *)
(* handler(req, res) from the first corsAllow call to the response.        *)
(*                                                                         *)
(* Strings are sequences of lexical tokens (<<"/", "match">> is "/match"); *)
(* the empty sequence is the empty string, and a header that is absent     *)
(* (undefined) reads as the empty sequence wherever the code only tests    *)
(* its truthiness.  No operation of the code splits a token used here.     *)
(***************************************************************************)
EXTENDS Integers, Sequences, FiniteSets, TLC

\* Largest number of chunks the request body stream delivers.
MaxChunks == 2

----------------------------------------------------------------------------
\* String helpers (JavaScript String.prototype.*, at token granularity)

EmptyStr == <<>>

Truthy(s) == s # EmptyStr

startsWith(s, prefix) ==
    /\ Len(s) >= Len(prefix)
    /\ SubSeq(s, 1, Len(prefix)) = prefix

includes(s, needle) ==
    \E i \in 1..(Len(s) - Len(needle) + 1) :
        SubSeq(s, i, i + Len(needle) - 1) = needle

\* Lower-casing of one token (the /i flag of the mount-prefix regex) or of
\* one header name (k.toLowerCase()).
toLowerCase(tok) ==
    CASE tok = "/API/Proxy" -> "/api/proxy"
      [] tok = ".JS"        -> ".js"
      [] tok = "Host"       -> "host"
      [] OTHER              -> tok

\* Header maps: functions from lower-case header names to strings.
NoHeaders == [k \in {} |-> EmptyStr]

Get(h, k) == IF k \in DOMAIN h THEN h[k] ELSE EmptyStr

setHeader(h, k, v) == [x \in (DOMAIN h) \cup {k} |-> IF x = k THEN v ELSE h[x]]

----------------------------------------------------------------------------
\* Inputs: the environment and the inbound request

ApiBaseValues == { EmptyStr, <<"https://up.example", "/">> }

Envs ==
    [ API_BASE : ApiBaseValues,
      SUPABASE_URL : BOOLEAN,
      SUPABASE_SERVICE_ROLE_KEY : BOOLEAN ]

Methods == { "GET", "HEAD", "POST", "OPTIONS", "PUT" }

\* query.path is undefined, a string or an array of strings.
NoPath == [kind |-> "undefined", v |-> <<>>]
StrPath(s) == [kind |-> "string", v |-> <<s>>]
ArrPath(a) == [kind |-> "array", v |-> a]

\* Raw targets: req.url together with the query.path the host parsed from it.
Targets ==
    { [url |-> <<"/api/proxy">>, qpath |-> NoPath],
      [url |-> <<"/api/proxy", "/", "match">>, qpath |-> NoPath],
      [url |-> <<"/api/proxy", "/", "debug-url">>, qpath |-> NoPath],
      [url |-> <<"/api/proxy", "/", "other">>, qpath |-> NoPath],
      [url |-> <<"/api/proxy", "/", "match", "?", "x=1">>, qpath |-> NoPath],
      [url |-> <<"/api/proxy", "?", "path=", "%2F", "match">>,
       qpath |-> StrPath(<<"%2F", "match">>)],
      [url |-> <<"/api/proxy", "?", "path=", "%zz">>,
       qpath |-> StrPath(<<"%zz">>)] }

AllowedOrigin == <<"https://frontend-matcher.vercel.app">>
EvilOrigin == <<"https://evil.example">>

JsonCT == <<"application/json">>

\* The body framing of a request and the number of chunks its stream holds:
\* no length header (no body), Content-Length: 0 (no body), a positive
\* Content-Length (a body), Transfer-Encoding: chunked (any body).
Framings ==
    { [cl |-> EmptyStr, te |-> EmptyStr, n |-> 0],
      [cl |-> <<"0">>, te |-> EmptyStr, n |-> 0] }
    \cup { [cl |-> <<"5">>, te |-> EmptyStr, n |-> k] : k \in 1..MaxChunks }
    \cup { [cl |-> EmptyStr, te |-> <<"chunked">>, n |-> k] : k \in 0..MaxChunks }

AuthzValues ==
    { EmptyStr, <<"Basic ", "abc">>, <<"Bearer ">>, <<"Bearer ", "tok">> }

OriginValues == { EmptyStr, AllowedOrigin, EvilOrigin }

ContentTypes ==
    { EmptyStr,
      JsonCT,
      <<"application/json", ";", " charset=utf-8">>,
      <<"application/json", "-patch+json">>,
      <<"multipart/form-data">> }

\* req.headers: the host lower-cases the names; an absent header has no key.
MkHeaders(f, authz, origin, ct) ==
    LET all == [k \in {"host", "content-length", "transfer-encoding",
                       "authorization", "origin", "content-type"} |->
                   CASE k = "host" -> <<"proxy.example">>
                     [] k = "content-length" -> f.cl
                     [] k = "transfer-encoding" -> f.te
                     [] k = "authorization" -> authz
                     [] k = "origin" -> origin
                     [] k = "content-type" -> ct]
    IN  [k \in {x \in DOMAIN all : all[x] # EmptyStr} |-> all[k]]

Requests ==
    { [method |-> m, url |-> t.url, qpath |-> t.qpath,
       headers |-> MkHeaders(f, a, o, c), chunks |-> f.n] :
        m \in Methods, t \in Targets, f \in Framings,
        a \in AuthzValues, o \in OriginValues, c \in ContentTypes }

\* A wider choice of targets and headers over fewer methods, framings and
\* header values: further shapes of req.url and query.path, a header name
\* the host did not lower-case, a caller-sent x-user-id and a preflight's
\* Access-Control-Request-Headers.
TargetsWide ==
    Targets \cup
    { [url |-> <<"/api/proxy", "/">>, qpath |-> NoPath],
      [url |-> <<"/API/Proxy", ".JS", "/", "match">>, qpath |-> NoPath],
      [url |-> <<"/api/proxy", "/", "other", "?", "path=">>,
       qpath |-> StrPath(EmptyStr)],
      [url |-> <<"/api/proxy", "?", "path=", "match">>,
       qpath |-> StrPath(<<"match">>)],
      [url |-> <<"/api/proxy", "?", "path=", "debug-url", "&", "path=", "x">>,
       qpath |-> ArrPath(<< <<"debug-url">>, <<"x">> >>)],
      [url |-> <<"/api/proxy", "?", "path=", "%2F", "match", "%3F", "x=1">>,
       qpath |-> StrPath(<<"%2F", "match", "%3F", "x=1">>)] }

WideHeaders(h, hostKey, xuid, acrh) ==
    LET extra == [k \in {hostKey, "x-user-id", "access-control-request-headers"} |->
                     CASE k = hostKey -> h["host"]
                       [] k = "x-user-id" -> xuid
                       [] k = "access-control-request-headers" -> acrh]
        names == ((DOMAIN h) \ {"host"}) \cup {k \in DOMAIN extra : extra[k] # EmptyStr}
    IN  [k \in names |-> IF k \in DOMAIN extra THEN extra[k] ELSE h[k]]

RequestsWide ==
    { [method |-> m, url |-> t.url, qpath |-> t.qpath,
       headers |-> WideHeaders(MkHeaders(f, a, o, c), hk, x, rh),
       chunks |-> f.n] :
        m \in {"GET", "POST", "OPTIONS"}, t \in TargetsWide,
        f \in { [cl |-> EmptyStr, te |-> EmptyStr, n |-> 0],
                [cl |-> <<"5">>, te |-> EmptyStr, n |-> MaxChunks] },
        a \in { EmptyStr, <<"Bearer ", "tok">> },
        o \in { AllowedOrigin, EvilOrigin },
        c \in { <<"application/json", ";", " charset=utf-8">>,
                <<"multipart/form-data">> },
        hk \in { "host", "Host" },
        x \in { EmptyStr, <<"u1">> },
        rh \in { EmptyStr, <<"x-custom">> } }

----------------------------------------------------------------------------
\* Pure functions of src/api/proxy.js

\* decodeURIComponent: throws on a malformed escape.
Malformed(p) == \E i \in 1..Len(p) : p[i] = "%zz"

decodeURIComponent(p) ==
    [i \in 1..Len(p) |-> CASE p[i] = "%2F" -> "/"
                            [] p[i] = "%3F" -> "?"
                            [] OTHER -> p[i]]

\* req.url.replace(/^\/api\/proxy(?:\.js)?/i, "")
StripMount(url) ==
    IF Len(url) >= 1 /\ toLowerCase(url[1]) = "/api/proxy"
    THEN IF Len(url) >= 2 /\ toLowerCase(url[2]) = ".js"
         THEN SubSeq(url, 3, Len(url))
         ELSE SubSeq(url, 2, Len(url))
    ELSE url

\* Variant of resolveUpstreamPath: the path parameter is not decoded.
resolveUpstreamPath_NoDecode(r) ==
    LET p0 == IF r.qpath.kind = "undefined" THEN EmptyStr
              ELSE IF Len(r.qpath.v) > 0 THEN r.qpath.v[1] ELSE EmptyStr
        withoutPrefix == StripMount(r.url)
    IN  IF r.qpath.kind # "undefined" /\ Len(r.qpath.v) > 0 /\ Len(p0) > 0
        THEN IF startsWith(p0, <<"/">>) THEN p0 ELSE <<"/">> \o p0
        ELSE IF withoutPrefix = EmptyStr \/ withoutPrefix = <<"/">>
             THEN <<"/">>
             ELSE IF startsWith(withoutPrefix, <<"/">>) THEN withoutPrefix
                  ELSE <<"/">> \o withoutPrefix

resolveUpstreamPath(r) ==
    LET p0 == IF r.qpath.kind = "undefined" THEN EmptyStr
              ELSE IF Len(r.qpath.v) > 0 THEN r.qpath.v[1] ELSE EmptyStr
        withoutPrefix == StripMount(r.url)
    IN  IF r.qpath.kind # "undefined" /\ Len(r.qpath.v) > 0 /\ Len(p0) > 0
        THEN LET p == IF Malformed(p0) THEN p0 ELSE decodeURIComponent(p0)
             IN  IF startsWith(p, <<"/">>) THEN p ELSE <<"/">> \o p
        ELSE IF withoutPrefix = EmptyStr \/ withoutPrefix = <<"/">>
             THEN <<"/">>
             ELSE IF startsWith(withoutPrefix, <<"/">>) THEN withoutPrefix
                  ELSE <<"/">> \o withoutPrefix

\* Variant of isEmptyPostMatch: only an explicit Content-Length of 0 is empty.
isEmptyPostMatch_ZeroOnly(r, upPath) ==
    IF r.method # "POST" \/ upPath # <<"/", "match">> THEN FALSE
    ELSE LET cl == Get(r.headers, "content-length")
         IN  Truthy(cl) /\ cl = <<"0">>

\* Number(cl) for the Content-Length values of the model.
Number(s) == IF s = <<"5">> THEN 5 ELSE 0

isEmptyPostMatch(r, upPath) ==
    IF r.method # "POST" \/ upPath # <<"/", "match">> THEN FALSE
    ELSE LET cl == Get(r.headers, "content-length")
         IN  ~(Truthy(cl) /\ Number(cl) > 0)

allowedOrigins ==
    { AllowedOrigin, <<"http://localhost:3000">>, <<"http://127.0.0.1:3000">> }

corsAllow(r, h) ==
    LET origin == Get(r.headers, "origin")
        h1 == IF Truthy(origin) /\ origin \in allowedOrigins
              THEN setHeader(setHeader(h, "access-control-allow-origin", origin),
                             "vary", <<"Origin">>)
              ELSE h
        acrh == Get(r.headers, "access-control-request-headers")
        h2 == setHeader(h1, "access-control-allow-headers",
                        IF Truthy(acrh) THEN acrh ELSE <<"authorization,content-type">>)
    IN  setHeader(h2, "access-control-allow-methods", <<"GET,HEAD,POST,OPTIONS">>)

protectedPaths == { <<"/", "match">>, <<"/", "debug-url">> }

IsProbe(r, upPath) == upPath = <<"/", "match">> /\ isEmptyPostMatch(r, upPath)

\* Variant of NeedsAuth: the method is not looked at.
NeedsAuth_AnyMethod(r, upPath, probe) ==
    upPath \in protectedPaths /\ ~probe

NeedsAuth(r, upPath, probe) ==
    r.method = "POST" /\ upPath \in protectedPaths /\ ~probe

\* API_BASE.replace(/\/$/, "") + upstreamPath
UpstreamUrl(base, upPath) ==
    (IF Len(base) > 0 /\ base[Len(base)] = "/"
     THEN SubSeq(base, 1, Len(base) - 1) ELSE base)
    \o (IF startsWith(upPath, <<"/">>) THEN upPath ELSE <<"/">> \o upPath)

----------------------------------------------------------------------------
\* Collaborators: the identity verifier and the upstream service

UserIds == { <<"u1">>, <<"u2">> }

\* What `await import(...)`, createClient and auth.getUser(token) can do:
\* throw, or resolve to { data, error }.  `cause` names what happened at the
\* verifier; a transport failure surfaces either way, as the client decides.
VerifierOutcomes ==
    { [cause |-> "accepted", threw |-> FALSE, error |-> EmptyStr, user |-> u] :
          u \in UserIds }
    \cup
    { [cause |-> "rejected", threw |-> FALSE, error |-> <<"invalid JWT">>,
       user |-> EmptyStr],
      [cause |-> "nouser", threw |-> FALSE, error |-> EmptyStr, user |-> EmptyStr],
      [cause |-> "transport", threw |-> FALSE, error |-> <<"fetch failed">>,
       user |-> EmptyStr],
      [cause |-> "transport", threw |-> TRUE, error |-> EmptyStr, user |-> EmptyStr],
      [cause |-> "config", threw |-> TRUE, error |-> EmptyStr, user |-> EmptyStr] }

NoOutcome == [cause |-> "none", threw |-> FALSE, error |-> EmptyStr, user |-> EmptyStr]

\* Response header sets the upstream may send (fetch lower-cases the names).
UpstreamHeaderSets ==
    { [k \in {"content-type"} |-> <<"text/plain">>],
      [k \in {"access-control-allow-origin", "access-control-allow-methods",
               "content-encoding"} |->
          CASE k = "content-encoding" -> <<"gzip">>
            [] k = "access-control-allow-methods" -> <<"GET">>
            [] OTHER -> <<"*">>] }

UpstreamStatuses == { 200, 401 }

UpstreamResponses ==
    [ status : UpstreamStatuses, headers : UpstreamHeaderSets ]

NoUpstream == [status |-> 0, headers |-> NoHeaders]

----------------------------------------------------------------------------
\* State of one run of handler(req, res)

VARIABLES
    env,          \* process.env
    req,          \* the inbound request (immutable)
    unread,       \* chunks still in the request body stream
    reads,        \* chunks taken from the stream, per consumer
    pc,           \* position of the handler
    res,          \* the response: status, headers, body
    upstreamPath, \* const upstreamPath
    url,          \* const url
    isProbe,      \* const isProbe
    needsAuth,    \* const needsAuth
    userId,       \* let userId
    headers,      \* const headers (also init.headers)
    init,         \* const init, without its headers
    chunks,       \* chunks buffered by the JSON loop
    verifier,     \* what the identity verifier did for this request
    calls,        \* calls made: validate, getUser, fetch
    sent,         \* what fetch received, once called
    upstream      \* the upstream response

vars == << env, req, unread, reads, pc, res, upstreamPath, url, isProbe,
           needsAuth, userId, headers, init, chunks, verifier, calls, sent,
           upstream >>

NoSent == [url |-> EmptyStr, method |-> "", headers |-> NoHeaders, body |-> "none"]

\* The state at the entry of handler, for a request drawn from R.
Entry(R) ==
    /\ env \in Envs
    /\ req \in R
    /\ unread = req.chunks
    /\ reads = [handler |-> 0, fetch |-> 0]
    /\ pc = "cors"
    /\ res = [status |-> 0, headers |-> NoHeaders, body |-> "unsent",
              error |-> EmptyStr, detail |-> FALSE]
    /\ upstreamPath = EmptyStr
    /\ url = EmptyStr
    /\ isProbe = FALSE
    /\ needsAuth = FALSE
    /\ userId = EmptyStr
    /\ headers = NoHeaders
    /\ init = [method |-> "", body |-> "unset", duplex |-> FALSE]
    /\ chunks = 0
    /\ verifier = NoOutcome
    /\ calls = [validate |-> 0, getUser |-> 0, fetch |-> 0]
    /\ sent = NoSent
    /\ upstream = NoUpstream

Init == Entry(Requests)

\* res.status(s).json({ error: e, ... }) and res.status(204).end()
Json(r, s, e) == [r EXCEPT !.status = s, !.body = "json", !.error = e]

\* res.status(s).json({ error: e, detail: e?.message || String(e) })
JsonDetail(r, s, e) == [Json(r, s, e) EXCEPT !.detail = TRUE]

End(r, s) == [r EXCEPT !.status = s, !.body = "empty"]

\* Variant of CorsStage: no preflight short-circuit.
CorsStage_NoPreflight ==
    /\ pc = "cors"
    /\ res' = [res EXCEPT !.headers = corsAllow(req, res.headers)]
    /\ pc' = "config"
    /\ UNCHANGED << env, req, unread, reads, upstreamPath, url, isProbe,
                    needsAuth, userId, headers, init, chunks, verifier, calls,
                    sent, upstream >>

\* handler, lines 102-106: corsAllow, then the preflight short-circuit
CorsStage ==
    /\ pc = "cors"
    /\ LET r1 == [res EXCEPT !.headers = corsAllow(req, res.headers)]
       IN  IF req.method = "OPTIONS"
           THEN res' = End(r1, 204) /\ pc' = "done"
           ELSE res' = r1 /\ pc' = "config"
    /\ UNCHANGED << env, req, unread, reads, upstreamPath, url, isProbe,
                    needsAuth, userId, headers, init, chunks, verifier, calls,
                    sent, upstream >>

\* Variant of ConfigCheck: API_BASE is not checked.
ConfigCheck_Skipped ==
    /\ pc = "config"
    /\ res' = res
    /\ pc' = "resolve"
    /\ UNCHANGED << env, req, unread, reads, upstreamPath, url, isProbe,
                    needsAuth, userId, headers, init, chunks, verifier, calls,
                    sent, upstream >>

\* handler, lines 108-109
ConfigCheck ==
    /\ pc = "config"
    /\ IF ~Truthy(env.API_BASE)
       THEN res' = Json(res, 500, <<"API_BASE not defined">>) /\ pc' = "done"
       ELSE res' = res /\ pc' = "resolve"
    /\ UNCHANGED << env, req, unread, reads, upstreamPath, url, isProbe,
                    needsAuth, userId, headers, init, chunks, verifier, calls,
                    sent, upstream >>

\* handler, lines 111-115
ResolvePath ==
    /\ pc = "resolve"
    /\ upstreamPath' = resolveUpstreamPath(req)
    /\ url' = UpstreamUrl(env.API_BASE, upstreamPath')
    /\ pc' = "classify"
    /\ UNCHANGED << env, req, unread, reads, res, isProbe, needsAuth, userId,
                    headers, init, chunks, verifier, calls, sent, upstream >>

\* Variant of Classify: the probe test looks into the body stream.
Classify_ReadsBody ==
    /\ pc = "classify"
    /\ isProbe' = IsProbe(req, upstreamPath)
    /\ needsAuth' = NeedsAuth(req, upstreamPath, isProbe')
    /\ userId' = EmptyStr
    /\ unread' = IF unread > 0 THEN unread - 1 ELSE unread
    /\ reads' = IF unread > 0 THEN [reads EXCEPT !.handler = @ + 1] ELSE reads
    /\ pc' = IF needsAuth' THEN "auth" ELSE "headers"
    /\ UNCHANGED << env, req, res, upstreamPath, url, headers, init, chunks,
                    verifier, calls, sent, upstream >>

\* handler, lines 120-128
Classify ==
    /\ pc = "classify"
    /\ isProbe' = IsProbe(req, upstreamPath)
    /\ needsAuth' = NeedsAuth(req, upstreamPath, isProbe')
    /\ userId' = EmptyStr
    /\ pc' = IF needsAuth' THEN "auth" ELSE "headers"
    /\ UNCHANGED << env, req, unread, reads, res, upstreamPath, url, headers,
                    init, chunks, verifier, calls, sent, upstream >>

\* validateSupabaseUserFromBearer, lines 82-83: the Bearer token or null
BearerToken(r) ==
    LET authz == Get(r.headers, "authorization")
    IN  IF startsWith(authz, <<"Bearer ">>) THEN Tail(authz) ELSE EmptyStr

\* Variant of ValidateEntry: a missing token is passed on to the verifier.
ValidateEntry_NoTokenCheck(e, r) ==
    IF ~e.SUPABASE_URL \/ ~e.SUPABASE_SERVICE_ROLE_KEY THEN "throw"
    ELSE "await"

\* validateSupabaseUserFromBearer up to its first await (lines 76-84), as
\* handler's lines 135-146 see it: "throw", { error: "Unauthorized" }, or
\* "await" when the verifier is to be called.
ValidateEntry(e, r) ==
    IF ~e.SUPABASE_URL \/ ~e.SUPABASE_SERVICE_ROLE_KEY THEN "throw"
    ELSE IF ~Truthy(BearerToken(r)) THEN "Unauthorized"
    ELSE "await"

\* Variant of AuthStatus: a result carrying an error does not stop the handler.
AuthStatus_IgnoreRejection(o) ==
    IF o.threw THEN 500 ELSE 0

\* validateSupabaseUserFromBearer, lines 92-95, and handler's lines 138-145:
\* the status the handler answers with, 0 when the pipeline continues.
AuthStatus(o) ==
    IF o.threw THEN 500
    ELSE IF Truthy(o.error) \/ ~Truthy(o.user) THEN 401
    ELSE 0

\* handler, lines 135-146, up to the verifier call
AuthGate ==
    /\ pc = "auth"
    /\ calls' = [calls EXCEPT !.validate = @ + 1]
    /\ LET v == ValidateEntry(env, req)
       IN  CASE v = "throw" ->
                  /\ res' = JsonDetail(res, 500, <<"Supabase validation failed">>)
                  /\ pc' = "done"
             [] v = "Unauthorized" ->
                  /\ res' = Json(res, 401, <<"Unauthorized">>)
                  /\ pc' = "done"
             [] OTHER ->
                  /\ res' = res
                  /\ pc' = "getUser"
    /\ UNCHANGED << env, req, unread, reads, upstreamPath, url, isProbe,
                    needsAuth, userId, headers, init, chunks, verifier, sent,
                    upstream >>

\* validateSupabaseUserFromBearer, lines 87-95, and handler, lines 138-145
VerifierReply ==
    /\ pc = "getUser"
    /\ \E o \in VerifierOutcomes :
        /\ verifier' = o
        /\ calls' = [calls EXCEPT !.getUser = @ + 1]
        /\ LET st == AuthStatus(o)
           IN  CASE st = 500 ->
                      /\ res' = JsonDetail(res, 500, <<"Supabase validation failed">>)
                      /\ pc' = "done"
                      /\ userId' = userId
                 [] st = 401 ->
                      /\ res' = Json(res, 401, <<"Invalid token">>)
                      /\ pc' = "done"
                      /\ userId' = userId
                 [] OTHER ->
                      /\ res' = res
                      /\ pc' = "headers"
                      /\ userId' = o.user
    /\ UNCHANGED << env, req, unread, reads, upstreamPath, url, isProbe,
                    needsAuth, headers, init, chunks, sent, upstream >>

\* Variant of ForwardHeaders: the names are compared as they arrive.
ForwardHeaders_CaseSensitive(r, uid) ==
    LET kept == [k \in (DOMAIN r.headers) \ {"host", "content-length"} |->
                    r.headers[k]]
        h1 == IF Truthy(Get(r.headers, "authorization"))
              THEN setHeader(kept, "authorization", r.headers["authorization"])
              ELSE kept
    IN  IF Truthy(uid) THEN setHeader(h1, "x-user-id", uid) ELSE h1

\* handler, lines 151-163: the header set forwarded upstream
ForwardHeaders(r, uid) ==
    LET names == {toLowerCase(k) : k \in DOMAIN r.headers}
                     \ {"host", "content-length"}
        kept == [k \in names |->
                    r.headers[CHOOSE x \in DOMAIN r.headers : toLowerCase(x) = k]]
        h1 == IF Truthy(Get(r.headers, "authorization"))
              THEN setHeader(kept, "authorization", r.headers["authorization"])
              ELSE kept
    IN  IF Truthy(uid) THEN setHeader(h1, "x-user-id", uid) ELSE h1

\* handler, lines 151-166
HeaderFilter ==
    /\ pc = "headers"
    /\ headers' = ForwardHeaders(req, userId)
    /\ init' = [init EXCEPT !.method = req.method]
    /\ pc' = "body"
    /\ UNCHANGED << env, req, unread, reads, res, upstreamPath, url, isProbe,
                    needsAuth, userId, chunks, verifier, calls, sent, upstream >>

\* Variant of BodyMode: the Content-Type is compared for equality.
BodyMode_ExactJson(r, probeEmpty) ==
    IF r.method \notin {"GET", "HEAD", "OPTIONS"} /\ ~probeEmpty
    THEN IF Get(r.headers, "content-type") = JsonCT
         THEN "buffered"
         ELSE "stream"
    ELSE "none"

\* handler, lines 171-175: the body mode, "none", "buffered" or "stream"
BodyMode(r, probeEmpty) ==
    IF r.method \notin {"GET", "HEAD", "OPTIONS"} /\ ~probeEmpty
    THEN IF includes(Get(r.headers, "content-type"), JsonCT)
         THEN "buffered"
         ELSE "stream"
    ELSE "none"

\* handler, lines 171-188, up to the buffering loop
BodyRelay ==
    /\ pc = "body"
    /\ LET mode == BodyMode(req, isProbe)
       IN  CASE mode = "buffered" ->
                  /\ init' = init
                  /\ pc' = "buffering"
             [] mode = "stream" ->
                  /\ init' = [init EXCEPT !.body = "stream", !.duplex = TRUE]
                  /\ pc' = "fetch"
             [] OTHER ->
                  /\ init' = init
                  /\ pc' = "fetch"
    /\ UNCHANGED << env, req, unread, reads, res, upstreamPath, url, isProbe,
                    needsAuth, userId, headers, chunks, verifier, calls, sent,
                    upstream >>

\* handler, line 177: one iteration of `for await (const c of req)`
ReadChunk ==
    /\ pc = "buffering"
    /\ unread > 0
    /\ unread' = unread - 1
    /\ reads' = [reads EXCEPT !.handler = @ + 1]
    /\ chunks' = chunks + 1
    /\ UNCHANGED << env, req, pc, res, upstreamPath, url, isProbe, needsAuth,
                    userId, headers, init, verifier, calls, sent, upstream >>

\* handler, line 177: the stream fails while it is read; the loop is outside
\* every try block, so the handler's promise rejects with no response written.
ReadAbort ==
    /\ pc = "buffering"
    /\ unread > 0
    /\ pc' = "thrown"
    /\ UNCHANGED << env, req, unread, reads, res, upstreamPath, url, isProbe,
                    needsAuth, userId, headers, init, chunks, verifier, calls,
                    sent, upstream >>

\* handler, lines 178-180: the stream ended
FinishBuffer ==
    /\ pc = "buffering"
    /\ unread = 0
    /\ init' = [init EXCEPT !.body = "text"]
    /\ headers' = setHeader(headers, "content-type", JsonCT)
    /\ pc' = "fetch"
    /\ UNCHANGED << env, req, unread, reads, res, upstreamPath, url, isProbe,
                    needsAuth, userId, chunks, verifier, calls, sent, upstream >>

\* What fetch(url, init) receives.
FetchArgs ==
    [url |-> url, method |-> init.method, headers |-> headers,
     body |-> IF init.body = "unset" THEN "none" ELSE init.body]

\* handler, line 194: fetch resolves; a streamed body is read by fetch
Dispatch ==
    /\ pc = "fetch"
    /\ calls' = [calls EXCEPT !.fetch = @ + 1]
    /\ sent' = FetchArgs
    /\ \E k \in 0..unread, u \in UpstreamResponses :
        /\ init.body # "stream" => k = 0
        /\ unread' = unread - k
        /\ reads' = [reads EXCEPT !.fetch = @ + k]
        /\ upstream' = u
    /\ pc' = "relay"
    /\ UNCHANGED << env, req, res, upstreamPath, url, isProbe, needsAuth,
                    userId, headers, init, chunks, verifier >>

\* Variant of DispatchFail: the rejection of fetch is not caught.
DispatchFail_Uncaught ==
    /\ pc = "fetch"
    /\ calls' = [calls EXCEPT !.fetch = @ + 1]
    /\ sent' = [url |-> url, method |-> init.method, headers |-> headers,
                body |-> IF init.body = "unset" THEN "none" ELSE init.body]
    /\ pc' = "thrown"
    /\ UNCHANGED << env, req, unread, reads, res, upstreamPath, url, isProbe,
                    needsAuth, userId, headers, init, chunks, verifier,
                    upstream >>

\* handler, lines 194 and 209-214: fetch rejects (DNS, connect, timeout)
DispatchFail ==
    /\ pc = "fetch"
    /\ calls' = [calls EXCEPT !.fetch = @ + 1]
    /\ sent' = FetchArgs
    /\ \E k \in 0..unread :
        /\ init.body # "stream" => k = 0
        /\ unread' = unread - k
        /\ reads' = [reads EXCEPT !.fetch = @ + k]
    /\ res' = JsonDetail(res, 502, <<"Bad gateway">>)
    /\ pc' = "done"
    /\ UNCHANGED << env, req, upstreamPath, url, isProbe, needsAuth, userId,
                    headers, init, chunks, verifier, upstream >>

\* handler, lines 197-202: upstream headers copied onto the response
CopyHeaders(h, up) ==
    LET ks == (DOMAIN up) \ {"content-encoding", "transfer-encoding"}
    IN  [k \in (DOMAIN h) \cup ks |-> IF k \in ks THEN up[k] ELSE h[k]]

\* Variant of RelayHeaders: corsAllow is not applied again after the copy.
RelayHeaders_NoReapply(r, h, up) == CopyHeaders(h, up)

\* handler, lines 197-205: the response headers after the upstream call
RelayHeaders(r, h, up) == corsAllow(r, CopyHeaders(h, up))

\* handler, lines 197-208
Relay ==
    /\ pc = "relay"
    /\ res' = [res EXCEPT !.headers = RelayHeaders(req, res.headers, upstream.headers),
                          !.status = upstream.status,
                          !.body = "upstream"]
    /\ pc' = "done"
    /\ UNCHANGED << env, req, unread, reads, upstreamPath, url, isProbe,
                    needsAuth, userId, headers, init, chunks, verifier, calls,
                    sent, upstream >>

\* handler, lines 207 and 209-214: reading the upstream body fails after the
\* headers were copied
RelayFail ==
    /\ pc = "relay"
    /\ res' = JsonDetail([res EXCEPT !.headers =
                              RelayHeaders(req, res.headers, upstream.headers)],
                         502, <<"Bad gateway">>)
    /\ pc' = "done"
    /\ UNCHANGED << env, req, unread, reads, upstreamPath, url, isProbe,
                    needsAuth, userId, headers, init, chunks, verifier, calls,
                    sent, upstream >>

Next ==
    \/ CorsStage
    \/ ConfigCheck
    \/ ResolvePath
    \/ Classify
    \/ AuthGate
    \/ VerifierReply
    \/ HeaderFilter
    \/ BodyRelay
    \/ ReadChunk
    \/ ReadAbort
    \/ FinishBuffer
    \/ Dispatch
    \/ DispatchFail
    \/ Relay
    \/ RelayFail

Spec == Init /\ [][Next]_vars

\* The same handler over the wider choice of requests.
InitWide == Entry(RequestsWide)

SpecWide == InitWide /\ [][Next]_vars

----------------------------------------------------------------------------
\* Vocabulary of the properties

Match == <<"/", "match">>
DebugUrl == <<"/", "debug-url">>

NoCalls == [validate |-> 0, getUser |-> 0, fetch |-> 0]
NoReads == [handler |-> 0, fetch |-> 0]

\* The handler has computed upstreamPath / isProbe and needsAuth.
Resolved == pc \notin {"cors", "config", "resolve"} /\ upstreamPath # EmptyStr
Classified == Resolved /\ pc # "classify"

\* The auth check of a request that needs it ended without a user identity.
AuthFailed == Classified /\ needsAuth /\ pc = "done" /\ ~Truthy(userId)

ContentLength == Get(req.headers, "content-length")

----------------------------------------------------------------------------
\* C1: when authentication is required, the auth check has finished (with a
\* bound user) before any chunk of the body is read and before fetch is
\* called; once the check has failed (401 or 500) the body stream is never
\* read and fetch is never called, in that state and in every later step.
C1_AuthBeforeBody ==
    /\ [](Classified /\ needsAuth /\ (reads # NoReads \/ calls.fetch > 0)
            => /\ Truthy(userId)
               /\ calls.validate = 1
               /\ verifier.cause = "accepted")
    /\ [](AuthFailed
            => /\ res.status \in {401, 500}
               /\ reads = NoReads
               /\ unread = req.chunks
               /\ calls.fetch = 0)
    /\ [][AuthFailed => (reads' = reads /\ calls'.fetch = calls.fetch)]_vars

C1_Witness ==
    /\ AuthFailed
    /\ res.status = 401
    /\ calls.getUser = 1
    /\ req.chunks > 0
    /\ unread = req.chunks

\* C2: past the OPTIONS and configuration checks, the identity check runs
\* exactly when the method is POST, the resolved path is /match or
\* /debug-url and the request is no probe; otherwise nothing of it runs.
C2_AuthIffProtectedPost ==
    (Classified /\ pc # "auth")
        => /\ (calls.validate = 1) <=>
                   (/\ req.method = "POST"
                    /\ upstreamPath \in {Match, DebugUrl}
                    /\ ~isProbe)
           /\ calls.validate \in {0, 1}
           /\ (calls.validate = 0 => calls.getUser = 0 /\ ~Truthy(userId))

C2_Witness ==
    /\ pc = "done"
    /\ req.method = "POST"
    /\ upstreamPath = DebugUrl
    /\ calls.getUser = 1
    /\ Truthy(userId)

\* C3: a POST resolved to /match whose Content-Length is absent or 0 is a
\* probe: no authentication is attempted, fetch is called (also without an
\* Authorization header) and no request body is sent or read.
C3_EmptyPostMatchIsProbe ==
    (/\ Resolved
     /\ req.method = "POST"
     /\ upstreamPath = Match
     /\ ContentLength \in {EmptyStr, <<"0">>})
        => /\ calls.validate = 0
           /\ calls.getUser = 0
           /\ reads = NoReads
           /\ pc \in {"classify", "headers", "body", "fetch", "relay", "done"}
           /\ (pc # "classify" => isProbe /\ ~needsAuth)
           /\ (pc \in {"relay", "done"}
                 => /\ calls.fetch = 1
                    /\ sent.body = "none"
                    /\ sent.method = "POST")

C3_Witness ==
    /\ pc = "done"
    /\ req.method = "POST"
    /\ upstreamPath = Match
    /\ ContentLength = <<"0">>
    /\ "authorization" \notin DOMAIN req.headers
    /\ calls.fetch = 1
    /\ "authorization" \notin DOMAIN sent.headers
    /\ res.status = 200

\* C4: a POST to /match with Transfer-Encoding: chunked and no
\* Content-Length is treated as having a body: it is no probe, the identity
\* check runs for it, and when fetch is called its body is relayed.
C4_ChunkedIsNotProbe ==
    (/\ Classified
     /\ req.method = "POST"
     /\ upstreamPath = Match
     /\ Get(req.headers, "transfer-encoding") = <<"chunked">>
     /\ "content-length" \notin DOMAIN req.headers)
        => /\ ~isProbe
           /\ needsAuth
           /\ (pc # "auth" => calls.validate = 1)
           /\ (calls.fetch = 1 => sent.body # "none")

\* C5 as stated: a POST to a protected path with a positive Content-Length
\* and no Bearer Authorization ends with 401 whatever the environment, with
\* no upstream call.
C5_Original ==
    (/\ pc = "done"
     /\ req.method = "POST"
     /\ resolveUpstreamPath(req) \in {Match, DebugUrl}
     /\ Number(ContentLength) > 0
     /\ ~startsWith(Get(req.headers, "authorization"), <<"Bearer ">>))
        => res.status = 401 /\ calls.fetch = 0

\* C5 amended: such a request never reaches the upstream and its body is
\* never read; it ends with 401 when API_BASE, SUPABASE_URL and
\* SUPABASE_SERVICE_ROLE_KEY are all set, and with 500 when one is missing.
C5_NoBearer401Or500 ==
    (/\ req.method = "POST"
     /\ resolveUpstreamPath(req) \in {Match, DebugUrl}
     /\ Number(ContentLength) > 0
     /\ ~startsWith(Get(req.headers, "authorization"), <<"Bearer ">>))
        => /\ calls.fetch = 0
           /\ calls.getUser = 0
           /\ reads = NoReads
           /\ pc \in {"cors", "config", "resolve", "classify", "auth", "done"}
           /\ (pc = "done" =>
                 res.status =
                     IF /\ Truthy(env.API_BASE)
                        /\ env.SUPABASE_URL
                        /\ env.SUPABASE_SERVICE_ROLE_KEY
                     THEN 401 ELSE 500)

C5_Witness ==
    /\ pc = "done"
    /\ req.method = "POST"
    /\ upstreamPath = Match
    /\ Number(ContentLength) > 0
    /\ "authorization" \notin DOMAIN req.headers
    /\ res.status = 401
    /\ res.error = <<"Unauthorized">>
    /\ calls = [validate |-> 1, getUser |-> 0, fetch |-> 0]

\* C6: when authentication is required and a Bearer token is present, the
\* verifier's outcome decides the response: a rejection or a missing user
\* gives 401, a transport or configuration failure of the verifier gives 500
\* and never 401, and only an accepted token binds a user id and lets the
\* pipeline continue.
C6_VerifierOutcomeDecides ==
    (/\ Classified
     /\ needsAuth
     /\ Truthy(BearerToken(req))
     /\ pc \notin {"auth", "getUser"})
        => /\ (verifier.cause \in {"rejected", "nouser"}
                 => pc = "done" /\ res.status = 401 /\ ~Truthy(userId))
           /\ (verifier.cause \in {"transport", "config"}
                 => pc = "done" /\ res.status = 500 /\ ~Truthy(userId))
           /\ (verifier.cause = "none"
                 => pc = "done" /\ res.status = 500 /\ calls.getUser = 0)
           /\ (verifier.cause = "accepted" => userId = verifier.user)
           /\ (Truthy(userId) \/ calls.fetch > 0 => verifier.cause = "accepted")

\* C7: the final response carries Access-Control-Allow-Origin equal to the
\* request's Origin when that origin is allow-listed, and no
\* Access-Control-Allow-Origin at all when the origin is absent or not
\* allow-listed, whatever headers the upstream sent.
C7_AllowOriginOnlyForAllowListed ==
    pc = "done"
        => LET origin == Get(req.headers, "origin")
           IN  IF origin \in { <<"https://frontend-matcher.vercel.app">>,
                               <<"http://localhost:3000">>,
                               <<"http://127.0.0.1:3000">> }
               THEN Get(res.headers, "access-control-allow-origin") = origin
               ELSE "access-control-allow-origin" \notin DOMAIN res.headers

\* C8: an OPTIONS request to a protected endpoint is answered locally with
\* 204 and an empty body; no authentication, no body read and no upstream
\* call happens for it, and the handler can always take its next step.
C8_PreflightAnsweredLocally ==
    (req.method = "OPTIONS" /\ resolveUpstreamPath(req) \in {Match, DebugUrl})
        => /\ pc \in {"cors", "done"}
           /\ calls = NoCalls
           /\ reads = NoReads
           /\ unread = req.chunks
           /\ sent = NoSent
           /\ (pc = "cors" => ENABLED CorsStage)
           /\ (pc = "done" => res.status = 204 /\ res.body = "empty")

C8_Witness ==
    /\ pc = "done"
    /\ req.method = "OPTIONS"
    /\ resolveUpstreamPath(req) = Match
    /\ req.chunks > 0
    /\ res.status = 204

\* C9 as stated: with no API_BASE every request ends with 500.
C9_Original ==
    (pc = "done" /\ ~Truthy(env.API_BASE)) => res.status = 500

\* C9 amended: with no API_BASE every request other than OPTIONS ends with
\* 500 "API_BASE not defined"; an OPTIONS request ends with 204, the
\* preflight answer coming before the configuration check; no 401 or 502 is
\* returned, and no authentication, body read or upstream call happens.
C9_ConfigMissing500ExceptPreflight ==
    ~Truthy(env.API_BASE)
        => /\ pc \in {"cors", "config", "done"}
           /\ calls = NoCalls
           /\ reads = NoReads
           /\ (pc = "done" =>
                 IF req.method = "OPTIONS"
                 THEN res.status = 204
                 ELSE /\ res.status = 500
                      /\ res.error = <<"API_BASE not defined">>)

C9_Witness ==
    /\ pc = "done"
    /\ ~Truthy(env.API_BASE)
    /\ req.method = "POST"
    /\ resolveUpstreamPath(req) = Match
    /\ Truthy(BearerToken(req))
    /\ res.status = 500

\* The media type of a Content-Type value: what precedes the first ";".
MediaType(ct) ==
    IF \E i \in 1..Len(ct) : ct[i] = ";"
    THEN SubSeq(ct, 1, (CHOOSE i \in 1..Len(ct) :
                           ct[i] = ";" /\ \A j \in 1..(i - 1) : ct[j] # ";") - 1)
    ELSE ct

\* The body mode fetch was called with, and its consistency with init.
ModeIsFinal ==
    /\ sent.body \in {"none", "text", "stream"}
    /\ sent.body = (IF init.body = "unset" THEN "none" ELSE init.body)
    /\ (sent.body = "text"
          => /\ ~init.duplex
             /\ reads.fetch = 0
             /\ unread = 0
             /\ Get(sent.headers, "content-type") = JsonCT)
    /\ (sent.body = "stream" => init.duplex /\ reads.handler = 0 /\ chunks = 0)
    /\ (sent.body = "none" => reads = NoReads)

NoBodyCase == req.method \in {"GET", "HEAD", "OPTIONS"} \/ isProbe

\* C10 as stated: the body is buffered exactly when the method carries a
\* body, the request is no probe and the Content-Type is application/json,
\* and streamed for any other Content-Type.
C10_Original ==
    calls.fetch = 1
        => /\ ModeIsFinal
           /\ (sent.body = "none" <=> NoBodyCase)
           /\ (sent.body = "text" <=>
                 ~NoBodyCase
                 /\ MediaType(Get(req.headers, "content-type")) = JsonCT)

\* C10 amended: for a request that reaches fetch one body mode is chosen
\* before the call and stays: none for GET, HEAD, OPTIONS or an empty probe;
\* buffered text with Content-Type forced to application/json when the
\* Content-Type contains the substring application/json; a live stream for
\* every Content-Type that does not contain it.  Buffered and streamed are
\* never both selected.
C10_OneBodyMode ==
    /\ [](calls.fetch = 1
            => /\ ModeIsFinal
               /\ (sent.body = "none" <=> NoBodyCase)
               /\ (sent.body = "text" <=>
                     ~NoBodyCase
                     /\ \E i \in 1..Len(Get(req.headers, "content-type")) :
                          Get(req.headers, "content-type")[i] = "application/json")
               /\ (sent.body = "stream" <=>
                     ~NoBodyCase
                     /\ \A i \in 1..Len(Get(req.headers, "content-type")) :
                          Get(req.headers, "content-type")[i] # "application/json"))
    /\ [](calls.fetch = 0 /\ pc \in {"fetch", "buffering"}
            => ~(init.body = "text" /\ init.duplex))
    /\ [][calls.fetch = 1 => init' = init /\ sent' = sent]_vars

C10_Witness ==
    /\ pc = "done"
    /\ calls.fetch = 1
    /\ req.method = "PUT"
    /\ Get(req.headers, "content-type") = <<"application/json", ";", " charset=utf-8">>
    /\ sent.body = "text"
    /\ reads.handler = MaxChunks
    /\ Get(sent.headers, "content-type") = JsonCT

\* C11: a transport failure of the upstream call is answered with 502 and
\* an error payload with a detail field; it never leaves the handler as an
\* uncaught exception, and once fetch has been called 502 is the only
\* locally synthesized error status.
C11_TransportFailure502 ==
    /\ [](calls.fetch > 0
            => /\ pc \in {"relay", "done"}
               /\ calls.fetch = 1
               /\ (pc = "done" /\ res.body # "upstream"
                     => /\ res.status = 502
                        /\ res.body = "json"
                        /\ res.error = <<"Bad gateway">>
                        /\ res.detail)
               /\ (pc = "done" /\ res.body = "upstream"
                     => res.status = upstream.status /\ upstream # NoUpstream))
    /\ [][pc = "fetch" => pc' \in {"relay", "done"} /\ calls'.fetch = 1]_vars
    /\ [][pc = "fetch" /\ pc' = "done"
            => res'.status = 502 /\ res'.detail /\ upstream' = NoUpstream]_vars

C11_Witness ==
    /\ pc = "done"
    /\ calls.fetch = 1
    /\ upstream = NoUpstream
    /\ res.status = 502
    /\ res.detail
    /\ sent.body = "stream"

\* The inbound headers that are neither host nor content-length, in any
\* casing of the name.
Forwardable ==
    { k \in DOMAIN req.headers : k \notin {"host", "Host", "content-length"} }

\* C12 as stated: the forwarded header set is the inbound one without host
\* and content-length, every other inbound header unchanged, and x-user-id
\* the bound user id when one was bound.
C12_Original ==
    calls.fetch = 1
        => /\ DOMAIN sent.headers =
                  Forwardable \cup (IF Truthy(userId) THEN {"x-user-id"} ELSE {})
           /\ \A k \in Forwardable :
                  (k = "x-user-id" /\ Truthy(userId)) \/ sent.headers[k] = req.headers[k]
           /\ (Truthy(userId) => sent.headers["x-user-id"] = userId)

\* C12 amended: as stated, except that Content-Type is replaced by
\* application/json (or added with that value) when the body is buffered.
C12_ForwardedHeaders ==
    calls.fetch = 1
        => /\ DOMAIN sent.headers =
                  Forwardable
                  \cup (IF Truthy(userId) THEN {"x-user-id"} ELSE {})
                  \cup (IF sent.body = "text" THEN {"content-type"} ELSE {})
           /\ \A k \in Forwardable :
                  \/ k = "x-user-id" /\ Truthy(userId)
                  \/ k = "content-type" /\ sent.body = "text"
                  \/ sent.headers[k] = req.headers[k]
           /\ (Truthy(userId) => sent.headers["x-user-id"] = userId)
           /\ (sent.body = "text" => sent.headers["content-type"] = JsonCT)

C12_Witness ==
    /\ calls.fetch = 1
    /\ "Host" \in DOMAIN req.headers
    /\ "content-length" \in DOMAIN req.headers
    /\ Get(req.headers, "x-user-id") = <<"u1">>
    /\ userId = <<"u2">>
    /\ sent.headers["x-user-id"] = <<"u2">>
    /\ sent.body = "stream"
    /\ Get(sent.headers, "authorization") = <<"Bearer ", "tok">>

\* C13: every response the handler produces, on every path, carries the
\* CORS headers the policy computes for the request:
\* Access-Control-Allow-Methods, Access-Control-Allow-Headers (the preflight's
\* requested headers or the default), and Access-Control-Allow-Origin when
\* the origin is allow-listed.
C13_CorsOnEveryResponse ==
    pc = "done"
        => /\ res.status \in {200, 204, 401, 500, 502}
           /\ Get(res.headers, "access-control-allow-methods")
                  = <<"GET,HEAD,POST,OPTIONS">>
           /\ Get(res.headers, "access-control-allow-headers")
                  = (IF "access-control-request-headers" \in DOMAIN req.headers
                     THEN req.headers["access-control-request-headers"]
                     ELSE <<"authorization,content-type">>)
           /\ (Get(req.headers, "origin") = <<"https://frontend-matcher.vercel.app">>
                 => /\ Get(res.headers, "access-control-allow-origin")
                          = <<"https://frontend-matcher.vercel.app">>
                    /\ Get(res.headers, "vary") = <<"Origin">>)

C13_Witness ==
    /\ pc = "done"
    /\ res.body = "upstream"
    /\ Get(upstream.headers, "access-control-allow-origin") = <<"*">>
    /\ Get(upstream.headers, "access-control-allow-methods") = <<"GET">>
    /\ Get(req.headers, "origin") = AllowedOrigin
    /\ Get(req.headers, "access-control-request-headers") = <<"x-custom">>
    /\ Get(res.headers, "access-control-allow-origin") = AllowedOrigin

\* C14: the resolved path always starts with "/": a non-empty path
\* parameter is percent-decoded (a malformed escape keeps the raw value) and
\* prefixed with "/" if needed; otherwise the mount prefix is stripped from
\* the raw target, an empty or "/" remainder gives "/", any other remainder
\* is prefixed with "/" if needed.  No response has status 400.
C14_ResolvedPath ==
    /\ res.status # 400
    /\ Resolved
         => /\ Len(upstreamPath) >= 1
            /\ upstreamPath[1] = "/"
            /\ (req.qpath = StrPath(<<"%2F", "match">>) => upstreamPath = <<"/", "match">>)
            /\ (req.qpath = StrPath(<<"%2F", "match", "%3F", "x=1">>)
                  => upstreamPath = <<"/", "match", "?", "x=1">>)
            /\ (req.qpath = StrPath(<<"%zz">>) => upstreamPath = <<"/", "%zz">>)
            /\ (req.qpath = StrPath(<<"match">>) => upstreamPath = <<"/", "match">>)
            /\ (req.qpath = ArrPath(<< <<"debug-url">>, <<"x">> >>)
                  => upstreamPath = <<"/", "debug-url">>)
            /\ (req.url = <<"/api/proxy">> => upstreamPath = <<"/">>)
            /\ (req.url = <<"/api/proxy", "/">> => upstreamPath = <<"/">>)
            /\ (req.url = <<"/api/proxy", "/", "match">> => upstreamPath = <<"/", "match">>)
            /\ (req.url = <<"/API/Proxy", ".JS", "/", "match">>
                  => upstreamPath = <<"/", "match">>)
            /\ (req.url = <<"/api/proxy", "/", "other", "?", "path=">>
                  => upstreamPath = <<"/", "other", "?", "path=">>)
            /\ (req.url = <<"/api/proxy", "/", "match", "?", "x=1">>
                  => upstreamPath = <<"/", "match", "?", "x=1">>)

C14_Witness ==
    /\ pc = "done"
    /\ req.qpath = StrPath(<<"%zz">>)
    /\ upstreamPath = <<"/", "%zz">>
    /\ calls.fetch = 1
    /\ sent.url = <<"https://up.example", "/", "%zz">>

\* The stage a position of the handler belongs to, in pipeline order.
Stage(p) ==
    CASE p = "cors" -> 1
      [] p = "config" -> 2
      [] p = "resolve" -> 3
      [] p = "classify" -> 4
      [] p \in {"auth", "getUser"} -> 5
      [] p = "headers" -> 6
      [] p \in {"body", "buffering"} -> 7
      [] p \in {"fetch", "relay"} -> 8
      [] OTHER -> 9

\* C15: the body stream is consumed at most once and by one consumer, the
\* buffering loop or fetch, never both and never by another stage; the
\* stages run in the order CORS, path resolution, probe check, auth, header
\* filter, body relay, dispatch, and no stage is entered again once left.
C15_OneConsumerStagesInOrder ==
    /\ [](/\ unread + reads.handler + reads.fetch = req.chunks
          /\ (reads.handler = 0 \/ reads.fetch = 0)
          /\ (reads.handler > 0 => init.body \in {"unset", "text"} /\ Stage(pc) >= 7)
          /\ (reads.fetch > 0 => init.body = "stream" /\ calls.fetch = 1)
          /\ chunks = reads.handler)
    /\ [][/\ reads'.handler # reads.handler => pc = "buffering"
          /\ reads'.fetch # reads.fetch => pc = "fetch"
          /\ unread' <= unread]_vars
    /\ [][/\ Stage(pc') >= Stage(pc)
          /\ (Stage(pc') = Stage(pc)
                => <<pc, pc'>> \in { <<"auth", "getUser">>, <<"body", "buffering">>,
                                     <<"buffering", "buffering">>,
                                     <<"fetch", "relay">> })]_vars

C15_Witness ==
    /\ pc = "done"
    /\ needsAuth
    /\ Truthy(userId)
    /\ reads.handler = MaxChunks
    /\ calls.fetch = 1
    /\ sent.body = "text"
    /\ res.body = "upstream"

\* C16: an x-user-id header reaching the upstream always carries the user
\* id the verifier returned for this request's token; a request with no
\* bound identity reaches the upstream without x-user-id, even when the
\* caller sent one.
C16_UserIdFromVerifierOnly ==
    (calls.fetch = 1 /\ "x-user-id" \in DOMAIN sent.headers)
        => /\ verifier.cause = "accepted"
           /\ calls.getUser = 1
           /\ sent.headers["x-user-id"] = verifier.user

\* The path component of an upstream URL: what follows the origin, up to the
\* first "?".
PathComponent(u) ==
    LET rest == Tail(u)
    IN  IF \E i \in 1..Len(rest) : rest[i] = "?"
        THEN SubSeq(rest, 1, (CHOOSE i \in 1..Len(rest) :
                                 rest[i] = "?" /\ \A j \in 1..(i - 1) : rest[j] # "?") - 1)
        ELSE rest

\* C17: whenever fetch is called with method POST and a request body on a
\* URL whose path component is /match or /debug-url, the verifier has
\* accepted this request's token beforehand, however the path was selected.
C17_ProtectedPostNeedsAcceptedToken ==
    (/\ calls.fetch = 1
     /\ sent.method = "POST"
     /\ sent.body # "none"
     /\ req.chunks > 0
     /\ PathComponent(sent.url) \in { <<"/", "match">>, <<"/", "debug-url">> })
        => /\ verifier.cause = "accepted"
           /\ calls.getUser = 1
           /\ Truthy(userId)

====
